---- MODULE Spec2Model ----
(***************************************************************************)
(* Model of the memory-mapped, log-structured key-value store of           *)
(* src/store.go: the mapped arena `data`, the in-memory index `idx`, the    *)
(* append offset `writingPosition`, the global mutex `mu`, the operations   *)
(* get / put / deleteVal as sequences of steps taken by concurrent request  *)
(* handlers, and process restart (initalize_map + fix_Idx).                 *)
(***************************************************************************)
EXTENDS Integers, Sequences, FiniteSets, TLC

\* ------------------------------------------------------------------ bounds
\* Size of the mapped file.  The program maps 8 MiB; the model maps a few
\* bytes so that two records fill it.
maxSize == 18

\* Number of concurrent request handlers (goroutines of net/http).
NumCallers == 2

\* Number of process restarts explored.
MaxRestarts == 2

\* ------------------------------------------------------------------ inputs
\* Keys and values are byte strings; a byte is a number in 0..255.
Keys == {<<>>, <<1>>}

Values == {<<>>, <<2, 1>>}

Procs == 1..NumCallers

Offsets == 0..(maxSize - 1)

VARIABLES
    data,             \* the mapping: offset -> byte (page cache of store.mmap)
    disk,             \* what the backing file holds on stable storage
    idx,              \* key -> offset
    writingPosition,  \* append offset
    mu,               \* TRUE when the mutex is locked
    phase,            \* "serving" | "panicked" (start-up scan died)
    pc,               \* per handler: position in its operation
    key,              \* per handler: argument key
    value,            \* per handler: argument value
    off,              \* per handler: local `off` of get
    ret,              \* per handler: value being returned
    restarts,         \* number of restarts so far
    hist              \* history: per key, its last mutation in this process
                      \* lifetime and the value of its last record

vars == <<data, disk, idx, writingPosition, mu, phase, pc, key, value, off,
          ret, restarts, hist>>

\* ------------------------------------------------------------ record codec
\* binary.LittleEndian.Uint32(d[p:])
Uint32(d, p) == d[p] + 256 * d[p + 1] + 65536 * d[p + 2] + 16777216 * d[p + 3]

\* byte i of the little-endian encoding of uint32(n)
LEByte(n, i) ==
    CASE i = 0 -> n % 256
      [] i = 1 -> (n \div 256) % 256
      [] i = 2 -> (n \div 65536) % 256
      [] i = 3 -> (n \div 16777216) % 256

\* binary.LittleEndian.PutUint32(d[p:], uint32(n))
PutUint32(d, p, n) ==
    [o \in Offsets |-> IF o >= p /\ o < p + 4 THEN LEByte(n, o - p) ELSE d[o]]

\* copy(d[p:], s)
Copy(d, p, s) ==
    [o \in Offsets |-> IF o >= p /\ o < p + Len(s) THEN s[o - p + 1] ELSE d[o]]

\* string(d[a:b]) for 0 <= a <= b <= maxSize
Slice(d, a, b) == [i \in 1..(b - a) |-> d[a + i - 1]]

\* The bytes put writes for (k, v): header, key, value.
RecordSize(k, v) == 8 + Len(k) + Len(v)

\* --------------------------------------------------------------- the index
\* var idx = map[string]int{}
EmptyIdx == [x \in {} |-> 0]

\* A map assignment that leaves an existing entry as it is.
IdxSet_KeepOld(ix, k, pos) ==
    [x \in DOMAIN ix \cup {k} |-> IF x \in DOMAIN ix THEN ix[x] ELSE pos]

\* idx[key] = pos
IdxSet(ix, k, pos) == [x \in DOMAIN ix \cup {k} |-> IF x = k THEN pos ELSE ix[x]]

\* A delete that removes nothing.
IdxDelete_Keep(ix, k) == ix

\* delete(idx, key)
IdxDelete(ix, k) == [x \in DOMAIN ix \ {k} |-> ix[x]]

\* ------------------------------------------------------------ recovery scan
\* fix_Idx: the loop from file_position = pos with index ix.  The result is
\* the index, the final file_position, and whether a slice expression ran
\* out of range (a run-time panic, which ends the process).
RECURSIVE ScanFrom(_, _, _)
ScanFrom(d, pos, ix) ==
    IF pos + 8 > maxSize
    THEN [idx |-> ix, wp |-> pos, panic |-> FALSE]
    ELSE LET key_len     == Uint32(d, pos)
             value_len   == Uint32(d, pos + 4)
             key_start   == pos + 8
             value_start == key_start + key_len
         IN  IF key_len = 0 /\ value_len = 0
             THEN [idx |-> ix, wp |-> pos, panic |-> FALSE]
             ELSE IF key_start + key_len > maxSize
                  THEN [idx |-> ix, wp |-> pos, panic |-> TRUE]
                  ELSE LET k == Slice(d, key_start, key_start + key_len)
                       IN  ScanFrom(d, value_start + value_len,
                                    IdxSet(ix, k, pos))

fix_Idx(d) == ScanFrom(d, 0, EmptyIdx)

\* ------------------------------------------------------------------- get
\* The body of get once `off` is known: decode the lengths at off and slice
\* the value out of the mapping.  An out-of-range slice panics.
GetRead(d, o) ==
    LET klen     == Uint32(d, o)
        vlen     == Uint32(d, o + 4)
        valStart == o + 8 + klen
    IN  IF valStart + vlen > maxSize
        THEN [kind |-> "panic", val |-> << >>]
        ELSE [kind |-> "found", val |-> Slice(d, valStart, valStart + vlen)]

NotFound == [kind |-> "NotFound", val |-> << >>]

\* What get(k) returns when run alone on index ix and mapping d.
GetResult(ix, d, k) == IF k \in DOMAIN ix THEN GetRead(d, ix[k]) ELSE NotFound

\* ------------------------------------------------------------ return values
NoRet == [kind |-> "none", val |-> << >>]

Ok == [kind |-> "Ok", val |-> << >>]

Full == [kind |-> "Full", val |-> << >>]

IOError == [kind |-> "IOError", val |-> << >>]

\* ------------------------------------------------------------------ history
\* hist[k].m: "none" (not in the index at start-up, untouched since),
\* "rec" (indexed by the start-up scan), "put" (last put acknowledged),
\* "ioerr" (last put wrote its record but msync failed), "del" (had a
\* record and was deleted last).
\* hist[k].v, hist[k].o: the value and the offset of the last record written
\* or recovered for k.
HistAfterScan(ix, d) ==
    [k \in Keys |-> IF k \in DOMAIN ix
                    THEN [m |-> "rec", v |-> GetRead(d, ix[k]).val, o |-> ix[k]]
                    ELSE [m |-> "none", v |-> << >>, o |-> 0]]

\* The put of (k, v) wrote its record, which ends at the cursor, and msync
\* returned: m is "put" or "ioerr".
HistAfterPut(m, k, v) ==
    [hist EXCEPT ![k] = [m |-> m, v |-> v,
                         o |-> writingPosition - RecordSize(k, v)]]

\* ---------------------------------------------------------------- initial
\* A fresh store.mmap: Truncate(maxSize) zero-fills it, the scan finds the
\* sentinel at offset 0, and the server starts with every handler idle.
Init ==
    /\ data = [o \in Offsets |-> 0]
    /\ disk = [o \in Offsets |-> 0]
    /\ idx = EmptyIdx
    /\ writingPosition = 0
    /\ mu = FALSE
    /\ phase = "serving"
    /\ pc = [p \in Procs |-> "idle"]
    /\ key = [p \in Procs |-> << >>]
    /\ value = [p \in Procs |-> << >>]
    /\ off = [p \in Procs |-> 0]
    /\ ret = [p \in Procs |-> NoRet]
    /\ restarts = 0
    /\ hist = [k \in Keys |-> [m |-> "none", v |-> << >>, o |-> 0]]

\* ------------------------------------------------------------ the handlers
\* A request handler calls get(k), put(k, v) or deleteVal(k) and passes
\* mu.Lock(), at once or after waiting at it; a caller that finds the mutex
\* locked blocks, which is this action being disabled.
\* A Lock that does not wait for the mutex to be free.
Lock_NoWait(p, first, k, v) ==
    /\ phase = "serving"
    /\ pc[p] \in {"idle", "lock"}
    /\ mu' = TRUE
    /\ pc' = [pc EXCEPT ![p] = first]
    /\ key' = [key EXCEPT ![p] = k]
    /\ value' = [value EXCEPT ![p] = v]
    /\ UNCHANGED <<data, disk, idx, writingPosition, phase, off, ret,
                   restarts, hist>>

\* mu.Lock() at the head of get, put and deleteVal.
Lock(p, first, k, v) ==
    /\ phase = "serving"
    /\ pc[p] \in {"idle", "lock"}
    /\ mu = FALSE
    /\ mu' = TRUE
    /\ pc' = [pc EXCEPT ![p] = first]
    /\ key' = [key EXCEPT ![p] = k]
    /\ value' = [value EXCEPT ![p] = v]
    /\ UNCHANGED <<data, disk, idx, writingPosition, phase, off, ret,
                   restarts, hist>>

LockGet(p) == \E k \in Keys : Lock(p, "get_lookup", k, << >>)

LockPut(p) == \E k \in Keys, v \in Values : Lock(p, "put_check", k, v)

LockDelete(p) == \E k \in Keys : Lock(p, "del", k, << >>)

\* get: off, ok := idx[key]; if !ok { return "", ErrKeyNotFound }
GetLookup(p) ==
    /\ pc[p] = "get_lookup"
    /\ IF key[p] \in DOMAIN idx
       THEN /\ off' = [off EXCEPT ![p] = idx[key[p]]]
            /\ pc' = [pc EXCEPT ![p] = "get_read"]
            /\ ret' = ret
       ELSE /\ ret' = [ret EXCEPT ![p] = NotFound]
            /\ pc' = [pc EXCEPT ![p] = "get_ret"]
            /\ off' = off
    /\ UNCHANGED <<data, disk, idx, writingPosition, mu, phase, key, value,
                   restarts, hist>>

\* get: klen, vlen, valStart, return string(data[valStart : valStart+vlen])
GetDecode(p) ==
    /\ pc[p] = "get_read"
    /\ ret' = [ret EXCEPT ![p] = GetRead(data, off[p])]
    /\ pc' = [pc EXCEPT ![p] = "get_ret"]
    /\ UNCHANGED <<data, disk, idx, writingPosition, mu, phase, key, value,
                   off, restarts, hist>>

\* The capacity test with >= in place of >.
PutIsFull_OffByOne(wp, k, v) == wp + RecordSize(k, v) >= maxSize

\* put: if writingPosition+recordSize > maxSize { return "store full" }
PutIsFull(wp, k, v) == wp + RecordSize(k, v) > maxSize

\* A put that enters its key in the index before the capacity test.
PutCheck_IndexFirst(p) ==
    /\ pc[p] = "put_check"
    /\ idx' = IdxSet(idx, key[p], writingPosition)
    /\ IF PutIsFull(writingPosition, key[p], value[p])
       THEN /\ ret' = [ret EXCEPT ![p] = Full]
            /\ pc' = [pc EXCEPT ![p] = "put_ret"]
       ELSE /\ ret' = ret
            /\ pc' = [pc EXCEPT ![p] = "put_klen"]
    /\ UNCHANGED <<data, disk, writingPosition, mu, phase, key, value,
                   off, restarts, hist>>

\* A put that holds the mutex for the capacity test only.
PutCheck_Unlocked(p) ==
    /\ pc[p] = "put_check"
    /\ mu' = FALSE
    /\ IF PutIsFull(writingPosition, key[p], value[p])
       THEN /\ ret' = [ret EXCEPT ![p] = Full]
            /\ pc' = [pc EXCEPT ![p] = "put_ret"]
       ELSE /\ ret' = ret
            /\ pc' = [pc EXCEPT ![p] = "put_klen"]
    /\ UNCHANGED <<data, disk, idx, writingPosition, phase, key, value,
                   off, restarts, hist>>

PutCheck(p) ==
    /\ pc[p] = "put_check"
    /\ IF PutIsFull(writingPosition, key[p], value[p])
       THEN /\ ret' = [ret EXCEPT ![p] = Full]
            /\ pc' = [pc EXCEPT ![p] = "put_ret"]
       ELSE /\ ret' = ret
            /\ pc' = [pc EXCEPT ![p] = "put_klen"]
    /\ UNCHANGED <<data, disk, idx, writingPosition, mu, phase, key, value,
                   off, restarts, hist>>

\* put: PutUint32(data[writingPosition:], uint32(klen))
PutKlen(p) ==
    /\ pc[p] = "put_klen"
    /\ data' = PutUint32(data, writingPosition, Len(key[p]))
    /\ pc' = [pc EXCEPT ![p] = "put_vlen"]
    /\ UNCHANGED <<disk, idx, writingPosition, mu, phase, key, value, off,
                   ret, restarts, hist>>

\* put: PutUint32(data[writingPosition+4:], uint32(vlen))
PutVlen(p) ==
    /\ pc[p] = "put_vlen"
    /\ data' = PutUint32(data, writingPosition + 4, Len(value[p]))
    /\ pc' = [pc EXCEPT ![p] = "put_key"]
    /\ UNCHANGED <<disk, idx, writingPosition, mu, phase, key, value, off,
                   ret, restarts, hist>>

\* put: copy(data[writingPosition+8:], key)
PutKey(p) ==
    /\ pc[p] = "put_key"
    /\ data' = Copy(data, writingPosition + 8, key[p])
    /\ pc' = [pc EXCEPT ![p] = "put_val"]
    /\ UNCHANGED <<disk, idx, writingPosition, mu, phase, key, value, off,
                   ret, restarts, hist>>

\* put: copy(data[writingPosition+8+klen:], value)
PutVal(p) ==
    /\ pc[p] = "put_val"
    /\ data' = Copy(data, writingPosition + 8 + Len(key[p]), value[p])
    /\ pc' = [pc EXCEPT ![p] = "put_idx"]
    /\ UNCHANGED <<disk, idx, writingPosition, mu, phase, key, value, off,
                   ret, restarts, hist>>

\* put: idx[key] = writingPosition
PutIdx(p) ==
    /\ pc[p] = "put_idx"
    /\ idx' = IdxSet(idx, key[p], writingPosition)
    /\ pc' = [pc EXCEPT ![p] = "put_wp"]
    /\ UNCHANGED <<data, disk, writingPosition, mu, phase, key, value, off,
                   ret, restarts, hist>>

\* put: writingPosition += recordSize
PutAdvance(p) ==
    /\ pc[p] = "put_wp"
    /\ writingPosition' = writingPosition + RecordSize(key[p], value[p])
    /\ pc' = [pc EXCEPT ![p] = "put_msync"]
    /\ UNCHANGED <<data, disk, idx, mu, phase, key, value, off, ret,
                   restarts, hist>>

\* A put that acknowledges without the file having been synchronized.
MsyncOk_NoSync(p) ==
    /\ pc[p] = "put_msync"
    /\ ret' = [ret EXCEPT ![p] = Ok]
    /\ pc' = [pc EXCEPT ![p] = "put_ret"]
    /\ hist' = HistAfterPut("put", key[p], value[p])
    /\ UNCHANGED <<data, disk, idx, writingPosition, mu, phase, key, value,
                   off, restarts>>

\* put: unix.Msync(data, MS_SYNC) succeeds: the file holds the mapping.
MsyncOk(p) ==
    /\ pc[p] = "put_msync"
    /\ disk' = data
    /\ ret' = [ret EXCEPT ![p] = Ok]
    /\ pc' = [pc EXCEPT ![p] = "put_ret"]
    /\ hist' = HistAfterPut("put", key[p], value[p])
    /\ UNCHANGED <<data, idx, writingPosition, mu, phase, key, value, off,
                   restarts>>

\* put: unix.Msync fails: return err.
MsyncFail(p) ==
    /\ pc[p] = "put_msync"
    /\ ret' = [ret EXCEPT ![p] = IOError]
    /\ pc' = [pc EXCEPT ![p] = "put_ret"]
    /\ hist' = HistAfterPut("ioerr", key[p], value[p])
    /\ UNCHANGED <<data, disk, idx, writingPosition, mu, phase, key, value,
                   off, restarts>>

\* A deleteVal that reclaims the space from the deleted record on.
Delete_Reclaim(p) ==
    /\ pc[p] = "del"
    /\ writingPosition' = IF key[p] \in DOMAIN idx
                          THEN idx[key[p]]
                          ELSE writingPosition
    /\ idx' = IdxDelete(idx, key[p])
    /\ ret' = [ret EXCEPT ![p] = Ok]
    /\ pc' = [pc EXCEPT ![p] = "del_ret"]
    /\ hist' = [hist EXCEPT ![key[p]] =
                   [m |-> IF hist[key[p]].m = "none" THEN "none" ELSE "del",
                    v |-> hist[key[p]].v, o |-> hist[key[p]].o]]
    /\ UNCHANGED <<data, disk, mu, phase, key, value, off, restarts>>

\* A deleteVal that also wipes the key length of the record in the arena.
Delete_Erase(p) ==
    /\ pc[p] = "del"
    /\ data' = IF key[p] \in DOMAIN idx
               THEN PutUint32(data, idx[key[p]], 0)
               ELSE data
    /\ idx' = IdxDelete(idx, key[p])
    /\ ret' = [ret EXCEPT ![p] = Ok]
    /\ pc' = [pc EXCEPT ![p] = "del_ret"]
    /\ hist' = [hist EXCEPT ![key[p]] =
                   [m |-> IF hist[key[p]].m = "none" THEN "none" ELSE "del",
                    v |-> hist[key[p]].v, o |-> hist[key[p]].o]]
    /\ UNCHANGED <<disk, writingPosition, mu, phase, key, value, off,
                   restarts>>

\* deleteVal: delete(idx, key); return nil
Delete(p) ==
    /\ pc[p] = "del"
    /\ idx' = IdxDelete(idx, key[p])
    /\ ret' = [ret EXCEPT ![p] = Ok]
    /\ pc' = [pc EXCEPT ![p] = "del_ret"]
    /\ hist' = [hist EXCEPT ![key[p]] =
                   [m |-> IF hist[key[p]].m = "none" THEN "none" ELSE "del",
                    v |-> hist[key[p]].v, o |-> hist[key[p]].o]]
    /\ UNCHANGED <<data, disk, writingPosition, mu, phase, key, value, off,
                   restarts>>

\* A return path for Full that leaves without mu.Unlock().
Unlock_NotOnFull(p) ==
    /\ pc[p] \in {"get_ret", "put_ret", "del_ret"}
    /\ mu' = IF ret[p] = Full THEN mu ELSE FALSE
    /\ pc' = [pc EXCEPT ![p] = "idle"]
    /\ key' = [key EXCEPT ![p] = << >>]
    /\ value' = [value EXCEPT ![p] = << >>]
    /\ off' = [off EXCEPT ![p] = 0]
    /\ ret' = [ret EXCEPT ![p] = NoRet]
    /\ UNCHANGED <<data, disk, idx, writingPosition, phase, restarts, hist>>

\* defer mu.Unlock(), and the operation returns ret[p] to its caller.
Unlock(p) ==
    /\ pc[p] \in {"get_ret", "put_ret", "del_ret"}
    /\ mu' = FALSE
    /\ pc' = [pc EXCEPT ![p] = "idle"]
    /\ key' = [key EXCEPT ![p] = << >>]
    /\ value' = [value EXCEPT ![p] = << >>]
    /\ off' = [off EXCEPT ![p] = 0]
    /\ ret' = [ret EXCEPT ![p] = NoRet]
    /\ UNCHANGED <<data, disk, idx, writingPosition, phase, restarts, hist>>

\* ---------------------------------------------------------- the environment
\* The kernel writes dirty pages of the MAP_SHARED mapping back to the file
\* at times of its own choosing.
Writeback ==
    /\ disk # data
    /\ disk' = data
    /\ UNCHANGED <<data, idx, writingPosition, mu, phase, pc, key, value,
                   off, ret, restarts, hist>>

\* The process ends (at any point of any operation) and main runs again on
\* the file image d: initalize_map maps the file and runs fix_Idx before the
\* server starts.  A panic in the scan ends the new process.
StartOn(d) ==
    LET r == fix_Idx(d)
    IN  /\ restarts < MaxRestarts
        /\ restarts' = restarts + 1
        /\ data' = d
        /\ disk' = disk
        /\ mu' = FALSE
        /\ pc' = [p \in Procs |-> "idle"]
        /\ key' = [p \in Procs |-> << >>]
        /\ value' = [p \in Procs |-> << >>]
        /\ off' = [p \in Procs |-> 0]
        /\ ret' = [p \in Procs |-> NoRet]
        /\ IF r.panic
           THEN /\ phase' = "panicked"
                /\ idx' = EmptyIdx
                /\ writingPosition' = 0
                /\ hist' = [k \in Keys |-> [m |-> "none", v |-> << >>, o |-> 0]]
           ELSE /\ phase' = "serving"
                /\ idx' = r.idx
                /\ writingPosition' = r.wp
                /\ hist' = HistAfterScan(r.idx, d)

\* The process is killed or exits; the page cache keeps every byte written
\* to the shared mapping.
Restart == StartOn(data)

\* The machine loses power; only what reached the file survives.
PowerLoss == disk # data /\ StartOn(disk)

Next ==
    \/ \E p \in Procs : LockGet(p)
    \/ \E p \in Procs : LockPut(p)
    \/ \E p \in Procs : LockDelete(p)
    \/ \E p \in Procs : GetLookup(p)
    \/ \E p \in Procs : GetDecode(p)
    \/ \E p \in Procs : PutCheck(p)
    \/ \E p \in Procs : PutKlen(p)
    \/ \E p \in Procs : PutVlen(p)
    \/ \E p \in Procs : PutKey(p)
    \/ \E p \in Procs : PutVal(p)
    \/ \E p \in Procs : PutIdx(p)
    \/ \E p \in Procs : PutAdvance(p)
    \/ \E p \in Procs : MsyncOk(p)
    \/ \E p \in Procs : MsyncFail(p)
    \/ \E p \in Procs : Delete(p)
    \/ \E p \in Procs : Unlock(p)
    \/ Writeback
    \/ Restart
    \/ PowerLoss

Spec == Init /\ [][Next]_vars

\* ------------------------------------------------- one process under fairness
\* A handler goroutine reaches mu.Lock() and waits there for the mutex.
Invoke(p) ==
    /\ phase = "serving"
    /\ pc[p] = "idle"
    /\ pc' = [pc EXCEPT ![p] = "lock"]
    /\ UNCHANGED <<data, disk, idx, writingPosition, mu, phase, key, value,
                   off, ret, restarts, hist>>

\* A waiting handler passes mu.Lock().
Acquire(p) == pc[p] = "lock" /\ (LockGet(p) \/ LockPut(p) \/ LockDelete(p))

\* A handler that holds the mutex runs its next statement, up to the
\* deferred mu.Unlock().
Step(p) ==
    \/ GetLookup(p) \/ GetDecode(p)
    \/ PutCheck(p) \/ PutKlen(p) \/ PutVlen(p) \/ PutKey(p) \/ PutVal(p)
    \/ PutIdx(p) \/ PutAdvance(p) \/ MsyncOk(p) \/ MsyncFail(p)
    \/ Delete(p)
    \/ Unlock(p)

\* The handlers of one running process, with the kernel's writeback.
LiveNext ==
    \/ \E p \in Procs : Invoke(p)
    \/ \E p \in Procs : LockGet(p)
    \/ \E p \in Procs : LockPut(p)
    \/ \E p \in Procs : LockDelete(p)
    \/ \E p \in Procs : GetLookup(p)
    \/ \E p \in Procs : GetDecode(p)
    \/ \E p \in Procs : PutCheck(p)
    \/ \E p \in Procs : PutKlen(p)
    \/ \E p \in Procs : PutVlen(p)
    \/ \E p \in Procs : PutKey(p)
    \/ \E p \in Procs : PutVal(p)
    \/ \E p \in Procs : PutIdx(p)
    \/ \E p \in Procs : PutAdvance(p)
    \/ \E p \in Procs : MsyncOk(p)
    \/ \E p \in Procs : MsyncFail(p)
    \/ \E p \in Procs : Delete(p)
    \/ \E p \in Procs : Unlock(p)
    \/ Writeback

\* The Go scheduler runs every runnable goroutine (weak fairness of the
\* steps of a handler that holds the mutex), and sync.Mutex hands the mutex
\* to a waiter that has been waiting long (starvation mode), so a waiter
\* for a mutex that is released again and again gets it (strong fairness).
LiveSpec ==
    /\ Init
    /\ [][LiveNext]_vars
    /\ \A p \in Procs : WF_vars(Step(p)) /\ SF_vars(Acquire(p))

\* ------------------------------------------------------------ claim helpers
InGet(p) == pc[p] = "get_ret"

Found(v) == [kind |-> "found", val |-> v]

\* The arena image d holds the complete record (k, v) at offset o.
RecordAt(d, o, k, v) ==
    /\ o + RecordSize(k, v) <= maxSize
    /\ Uint32(d, o) = Len(k)
    /\ Uint32(d, o + 4) = Len(v)
    /\ Slice(d, o + 8, o + 8 + Len(k)) = k
    /\ Slice(d, o + 8 + Len(k), o + 8 + Len(k) + Len(v)) = v

\* A step of the running process (no restart took place).
SameProcess == restarts' = restarts

\* ---------------------------------------------------------------------- C1
\* C1: a get of a key whose last mutation was an acknowledged put returns
\* found together with exactly the value of that put (the most recent
\* successful put of the key, also when the key was put before).
C1_GetReturnsLastPut ==
    \A p \in Procs :
        (InGet(p) /\ hist[key[p]].m = "put")
            => ret[p] = Found(hist[key[p]].v)

\* put("", ""); put("", "\x02\x01"); get("") returns the second value from
\* the second record, at offset 8.
C1_Witness ==
    \E p \in Procs :
        /\ InGet(p) /\ key[p] = << >> /\ hist[<< >>].m = "put"
        /\ restarts = 0 /\ idx[<< >>] = 8 /\ RecordAt(data, 0, << >>, << >>)
        /\ ret[p] = Found(<<2, 1>>)

\* ---------------------------------------------------------------------- C2
\* C2: get returns NotFound exactly when its key is absent from the index;
\* it does so for a key with no record and no put in this process lifetime
\* and for a key whose last mutation was a delete, and never for a key whose
\* last mutation was an acknowledged put.
C2_NotFoundIffAbsent ==
    \A p \in Procs :
        InGet(p) =>
            /\ (ret[p] = NotFound) <=> (key[p] \notin DOMAIN idx)
            /\ hist[key[p]].m \in {"none", "del"} => ret[p] = NotFound
            /\ hist[key[p]].m = "put" => ret[p] # NotFound

\* put(k, v); delete(k); get(k) yields NotFound.
C2_Witness ==
    \E p \in Procs :
        InGet(p) /\ hist[key[p]].m = "del" /\ ret[p] = NotFound

\* ---------------------------------------------------------------------- C3
\* C3: deleteVal of a key that is not in the index returns NotFound and
\* leaves the index, the cursor and the arena unchanged; it returns Ok only
\* when the key was in the index.
C3_DeleteAbsentIsNotFound ==
    [][\A p \in Procs :
          (pc[p] = "del" /\ pc'[p] = "del_ret")
              => /\ (key[p] \notin DOMAIN idx)
                     => /\ ret'[p] = NotFound
                        /\ UNCHANGED <<idx, writingPosition, data>>
                 /\ (ret'[p] = Ok) => (key[p] \in DOMAIN idx)]_vars

\* ---------------------------------------------------------------------- C4
\* C4: a put that returns Full changes nothing from its call to its return:
\* index, cursor and arena bytes are as before, and so is the result of get
\* for every key.
C4_FullIsNoOp ==
    [][\A p \in Procs :
          (SameProcess /\
             \/ pc[p] = "idle" /\ pc'[p] = "put_check"
             \/ pc[p] = "put_check" /\ ret'[p] = Full
             \/ pc[p] = "put_ret" /\ ret[p] = Full)
              => /\ UNCHANGED <<idx, writingPosition, data>>
                 /\ pc[p] = "put_check" => pc'[p] = "put_ret"
                 /\ \A k \in Keys :
                        GetResult(idx', data', k) = GetResult(idx, data, k)]_vars

\* A put of a key that already has a record is refused with Full.
C4_Witness ==
    \E p \in Procs :
        /\ pc[p] = "put_ret" /\ ret[p] = Full
        /\ key[p] \in DOMAIN idx
        /\ GetResult(idx, data, key[p]) = Found(<<2, 1>>)

\* ---------------------------------------------------------------------- C5
\* C5: put is refused with Full exactly when cursor + 8 + len(k) + len(v)
\* exceeds the capacity; a put that goes on ends with the cursor advanced by
\* its record size and at most at the capacity.
C5_FullIffOverCapacity ==
    [][\A p \in Procs :
          /\ (pc[p] = "put_check" /\ SameProcess /\ pc'[p] # "put_check")
                => /\ (ret'[p] = Full) <=>
                         (writingPosition + 8 + Len(key[p]) + Len(value[p])
                             > maxSize)
                   /\ (writingPosition + 8 + Len(key[p]) + Len(value[p])
                         = maxSize) => pc'[p] = "put_klen"
                   /\ (writingPosition = maxSize - 1) => ret'[p] = Full
          /\ (pc[p] = "put_wp" /\ pc'[p] = "put_msync")
                => /\ writingPosition' =
                         writingPosition + 8 + Len(key[p]) + Len(value[p])
                   /\ writingPosition' <= maxSize]_vars

\* A put that exactly fills the arena is acknowledged with cursor = capacity.
C5_Witness ==
    \E p \in Procs :
        /\ pc[p] = "put_ret" /\ ret[p] = Ok
        /\ writingPosition = maxSize
        /\ idx[key[p]] + RecordSize(key[p], value[p]) = maxSize

\* With capacity - 1 bytes used, a one-byte key with an empty value is
\* refused with Full.
C5_AlmostFull ==
    \E p \in Procs :
        /\ pc[p] = "put_ret" /\ ret[p] = Full
        /\ writingPosition = maxSize - 1
        /\ Len(key[p]) = 1 /\ Len(value[p]) = 0

\* ---------------------------------------------------------------------- C6
\* C6: when put acknowledges, the complete record it appended is in the
\* backing file; it stays there at every later moment of the process, and a
\* restart after a crash or a power loss maps an arena that holds it.
C6_AckedPutIsDurable ==
    [][/\ \A p \in Procs :
             (pc[p] = "put_msync" /\ pc'[p] = "put_ret" /\ ret'[p] = Ok)
                 => /\ hist'[key[p]].o + RecordSize(key[p], value[p])
                         = writingPosition
                    /\ RecordAt(disk', hist'[key[p]].o, key[p], value[p])
       /\ \A k \in Keys :
             hist'[k].m = "put" => RecordAt(disk', hist'[k].o, k, hist'[k].v)
       /\ ~SameProcess
             => \A k \in Keys :
                    hist[k].m = "put"
                        => RecordAt(data', hist[k].o, k, hist[k].v)]_vars

\* put("\x01", v) is about to return Ok and the file holds its record,
\* after the msync of an earlier put of the other key had failed.
C6_Witness ==
    \E p \in Procs :
        /\ pc[p] = "put_ret" /\ ret[p] = Ok /\ key[p] = <<1>>
        /\ hist[key[p]].o > 0
        /\ RecordAt(disk, hist[key[p]].o, key[p], value[p])
        /\ \E k \in Keys : hist[k].m = "ioerr"

\* ---------------------------------------------------------------------- C7
\* C7: after any sequence of puts and deletes on a fresh store, a process
\* restart on the same arena starts serving, and get of every key that was
\* in the index before returns what it returned before.
Quiescent == \A p \in Procs : pc[p] = "idle"

ProcessRestart == ~SameProcess /\ data' = data /\ Quiescent

C7_RestartPreservesGets ==
    [][(ProcessRestart /\ restarts = 0)
          => /\ phase' = "serving"
             /\ \A k \in DOMAIN idx :
                    GetResult(idx', data', k) = GetResult(idx, data, k)]_vars

\* ---------------------------------------------------------------------- C8
\* C8: a key that had a record and was deleted last is in the index again
\* after a process restart, and get of it returns the value of its last
\* record in the arena.
C8_DeletedKeyReappears ==
    [][(ProcessRestart /\ restarts = 0)
          => \A k \in Keys :
                 hist[k].m = "del"
                     => GetResult(idx', data', k) = Found(hist[k].v)]_vars

\* ---------------------------------------------------------------------- C9
\* C9: at most one handler is between its mu.Lock() and its mu.Unlock(), and
\* the mutex is locked exactly while one is.
InCritical == {p \in Procs : pc[p] # "idle"}

C9_MutualExclusion ==
    /\ Cardinality(InCritical) <= 1
    /\ mu <=> (InCritical # {})

\* One handler is in the middle of put's byte writes, holding the mutex, and
\* the other handlers are outside.
C9_Witness ==
    \E p \in Procs :
        /\ pc[p] = "put_key" /\ mu
        /\ \A q \in Procs \ {p} : pc[q] = "idle"
        /\ writingPosition > 0

\* --------------------------------------------------------------------- C10
\* The record starts met when stepping through d from pos by
\* 8 + keyLen + valLen while below limit, and whether the steps land
\* exactly on limit.
RECURSIVE Walk(_, _, _)
Walk(d, pos, limit) ==
    IF pos = limit THEN [starts |-> {}, exact |-> TRUE]
    ELSE IF pos > limit \/ pos + 8 > maxSize
         THEN [starts |-> {}, exact |-> FALSE]
         ELSE LET w == Walk(d, pos + 8 + Uint32(d, pos) + Uint32(d, pos + 4),
                            limit)
              IN  [starts |-> {pos} \cup w.starts, exact |-> w.exact]

\* C10: whatever the interleaving of the callers, stepping through the arena
\* from offset 0 to the cursor meets, for every key whose put was
\* acknowledged, one complete record with the key and value of that put,
\* different keys have different records, and get of the key returns the
\* value its caller wrote.
C10_PutsDoNotInterleave ==
    \A k \in Keys :
        hist[k].m = "put"
            => /\ Walk(data, 0, writingPosition).exact
               /\ hist[k].o \in Walk(data, 0, writingPosition).starts
               /\ RecordAt(data, hist[k].o, k, hist[k].v)
               /\ hist[k].o + RecordSize(k, hist[k].v) <= writingPosition
               /\ Quiescent => GetResult(idx, data, k) = Found(hist[k].v)
               /\ \A j \in Keys \ {k} :
                      hist[j].m = "put" => hist[j].o # hist[k].o

\* Both keys were put, the second put by handler 2, and both are acknowledged.
C10_Witness ==
    /\ restarts = 0
    /\ \A k \in Keys : hist[k].m = "put"
    /\ pc[2] = "put_ret" /\ ret[2] = Ok /\ hist[key[2]].o > 0
    /\ key[2] = <<1>>

\* --------------------------------------------------------------------- C11
\* The offset of the record a put that got through its writes has written.
PutOffset(p) == writingPosition - RecordSize(key[p], value[p])

\* C11: a put that is acknowledged has not written a record whose keyLen and
\* valLen are both zero, and the recovery scan of the arena does not stop
\* before the end of that record.
C11_PutNeverWritesSentinel ==
    \A p \in Procs :
        (pc[p] = "put_ret" /\ ret[p] = Ok /\ restarts = 0)
            => /\ ~(Uint32(data, PutOffset(p)) = 0
                    /\ Uint32(data, PutOffset(p) + 4) = 0)
               /\ fix_Idx(data).wp >= writingPosition

\* --------------------------------------------------------------------- C12
\* The record that starts at offset o of d ends within the capacity.
RecordFits(d, o) == o + 8 + Uint32(d, o) + Uint32(d, o + 4) <= maxSize

\* C12: the store never serves with a cursor beyond the capacity or with an
\* index entry whose record, by its header, extends past the capacity: a
\* start-up scan that meets such a header does not reach the serving state.
C12_MalformedLogIsFatal ==
    phase = "serving"
        => /\ writingPosition <= maxSize
           /\ \A k \in DOMAIN idx : RecordFits(data, idx[k])

\* --------------------------------------------------------------------- C13
\* C13: while the store serves, the cursor is within 0..capacity and stepping
\* from offset 0 by 8 + keyLen + valLen lands exactly on the cursor.
C13_ArenaInvariant ==
    phase = "serving"
        => /\ 0 <= writingPosition
           /\ writingPosition <= maxSize
           /\ Walk(data, 0, writingPosition).exact

\* --------------------------------------------------------------------- C14
\* The key stored in the record at offset o of d.
KeyAt(d, o) == Slice(d, o + 8, o + 8 + Uint32(d, o))

\* Offset o starts a complete record of d that lies below the cursor.
CompleteRecord(d, o) ==
    /\ o \in Walk(d, 0, writingPosition).starts
    /\ RecordFits(d, o)
    /\ o + 8 + Uint32(d, o) + Uint32(d, o + 4) <= writingPosition

\* C14: whenever no operation is inside its critical section, every entry
\* idx[k] is the start of a complete record below the cursor whose stored
\* key is k, and no record with key k starts at a higher offset below the
\* cursor.
C14_IndexInvariant ==
    (phase = "serving" /\ Quiescent)
        => \A k \in DOMAIN idx :
               /\ CompleteRecord(data, idx[k])
               /\ KeyAt(data, idx[k]) = k
               /\ \A o \in Walk(data, 0, writingPosition).starts :
                      (o > idx[k] /\ CompleteRecord(data, o))
                          => KeyAt(data, o) # k

\* --------------------------------------------------------------------- C15
\* The steps of handler p that belong to get, to deleteVal and to put.
GetStep(p) ==
    pc[p] \in {"get_lookup", "get_read", "get_ret"} /\ pc'[p] # pc[p]

DeleteStep(p) == pc[p] \in {"del", "del_ret"} /\ pc'[p] # pc[p]

PutStep(p) ==
    /\ pc[p] \in {"put_check", "put_klen", "put_vlen", "put_key", "put_val",
                  "put_idx", "put_wp", "put_msync", "put_ret"}
    /\ pc'[p] # pc[p]

\* The offsets whose byte a step changes.
Changed == {o \in Offsets : data'[o] # data[o]}

\* C15: no step of a running process changes a byte below the cursor; get
\* leaves arena, cursor and index unchanged, deleteVal leaves arena and
\* cursor unchanged, and a put changes only bytes of
\* [cursor, cursor + 8 + len(k) + len(v)) and then advances the cursor by
\* exactly that size.
C15_AppendOnly ==
    [][SameProcess
          => /\ \A o \in Changed : o >= writingPosition
             /\ \A p \in Procs :
                   /\ GetStep(p) => UNCHANGED <<data, writingPosition, idx>>
                   /\ DeleteStep(p) => UNCHANGED <<data, writingPosition>>
                   /\ PutStep(p)
                        => /\ \A o \in Changed :
                                 /\ o >= writingPosition
                                 /\ o < writingPosition
                                          + RecordSize(key[p], value[p])
                           /\ IF pc[p] = "put_wp"
                              THEN /\ Changed = {}
                                   /\ writingPosition' = writingPosition
                                          + RecordSize(key[p], value[p])
                              ELSE writingPosition' = writingPosition]_vars

\* A second record was appended and acknowledged; the first record, below
\* the cursor the put started with, is as it was.
C15_Witness ==
    \E p \in Procs :
        /\ pc[p] = "put_ret" /\ ret[p] = Ok /\ restarts = 0
        /\ key[p] = << >> /\ PutOffset(p) = 9
        /\ RecordAt(data, 0, <<1>>, << >>)
        /\ hist[<<1>>].m = "del"

\* --------------------------------------------------------------------- C16
\* The flush of the record appended by handler p has not succeeded: it is
\* still to be called, or it returned an error.
FlushNotSucceeded(p) ==
    \/ pc[p] = "put_msync"
    \/ pc[p] = "put_ret" /\ ret[p] = IOError

\* C16: the index is set to the new record's offset only after the flush
\* of the record succeeded: while the flush of a put is outstanding or has
\* failed, the index does not point to that put's record.
C16_IndexSetAfterFlush ==
    \A p \in Procs :
        FlushNotSucceeded(p)
            => ~(key[p] \in DOMAIN idx /\ idx[key[p]] = PutOffset(p))

\* --------------------------------------------------------------------- C17
\* C17: when the first process, with no operation in progress, is shut down
\* and a new process starts on the same file, the cursor computed by the
\* recovery scan equals the cursor the old process had.
C17_RecoveryRestoresCursor ==
    [][(ProcessRestart /\ restarts = 0)
          => writingPosition' = writingPosition]_vars

\* --------------------------------------------------------------------- C18
\* C18: within one process lifetime no step decreases the cursor, so a
\* record size that does not fit stays unfit, and a put of a size that
\* does not fit fails with Full, whatever was deleted in between.
C18_ExhaustionIsPermanent ==
    [][SameProcess
          => /\ writingPosition' >= writingPosition
             /\ \A k \in Keys, v \in Values :
                    PutIsFull(writingPosition, k, v)
                        => PutIsFull(writingPosition', k, v)
             /\ \A p \in Procs :
                    (/\ pc[p] = "put_check" /\ pc'[p] # pc[p]
                     /\ PutIsFull(writingPosition, key[p], value[p]))
                        => ret'[p] = Full]_vars

\* A put fails with Full although a key was deleted before it.
C18_Witness ==
    \E p \in Procs :
        /\ pc[p] = "put_ret" /\ ret[p] = Full /\ restarts = 0
        /\ \E k \in Keys : hist[k].m = "del"

\* --------------------------------------------------------------------- C19
\* Handler p is inside put, past the capacity test.
Writing(p) ==
    \/ pc[p] \in {"put_klen", "put_vlen", "put_key", "put_val", "put_idx",
                  "put_wp", "put_msync"}
    \/ pc[p] = "put_ret" /\ ret[p] # Full

\* The cursor the put of handler p started with.
StartCursor(p) ==
    IF pc[p] \in {"put_msync", "put_ret"} THEN PutOffset(p)
                                           ELSE writingPosition

\* The arena d without the record of size n at offset c, and with the
\* complete record (k, v) at offset c.
WithoutRecord(d, c, n) ==
    [o \in Offsets |-> IF o >= c /\ o < c + n THEN 0 ELSE d[o]]

WithRecord(d, c, k, v) ==
    Copy(Copy(PutUint32(PutUint32(d, c, Len(k)), c + 4, Len(v)), c + 8, k),
         c + 8 + Len(k), v)

\* The keys some caller has put or is putting.
PutKeys ==
    {k \in Keys : hist[k].m # "none"} \cup {key[p] : p \in {q \in Procs : Writing(q)}}

\* C19: when the first process is killed at any point of a put and a new
\* process starts on the same mapping, recovery serves, and its index and
\* cursor are those recovered from the arena without the put's record or
\* those recovered from the arena with the put's complete record; every
\* recovered key is one a caller has put.
C19_CrashAtomicity ==
    [][(~SameProcess /\ data' = data /\ restarts = 0)
          => \A p \in Procs :
                Writing(p)
                    => LET c      == StartCursor(p)
                           before == fix_Idx(WithoutRecord(data, c,
                                         RecordSize(key[p], value[p])))
                           after  == fix_Idx(WithRecord(data, c, key[p],
                                                        value[p]))
                       IN  /\ phase' = "serving"
                           /\ \/ idx' = before.idx
                                 /\ writingPosition' = before.wp
                              \/ idx' = after.idx
                                 /\ writingPosition' = after.wp
                           /\ DOMAIN idx' \subseteq PutKeys]_vars

\* --------------------------------------------------------------------- C20
\* The handlers that hold the mutex: inside get, put or deleteVal.
Holders == {p \in Procs : pc[p] \notin {"idle", "lock"}}

\* C20: the mutex is held only while an operation is inside its critical
\* section (every return path releases it), and under fair scheduling every
\* handler waiting at mu.Lock() acquires the mutex, reaches its return and
\* is back outside with the mutex released by it.
C20_LockReleasedAndProgress ==
    /\ [](mu => Holders # {})
    /\ \A p \in Procs :
           /\ (pc[p] = "lock") ~> (p \in Holders)
           /\ (p \in Holders) ~> (pc[p] = "idle")

\* A put returns Full, about to release the mutex, while another handler
\* waits for it.
C20_Witness ==
    \E p \in Procs, q \in Procs :
        /\ pc[p] = "put_ret" /\ ret[p] = Full /\ mu
        /\ pc[q] = "lock"

====
